---------------------------- MODULE Spec2Model ----------------------------
(***************************************************************************)
(* Model of the job scheduler of ledoxide (src/src/schedule.rs) together   *)
(* with the job record and its serialisation (src/src/task.rs).            *)
(*                                                                         *)
(* A job is named by the number of the create_task call that made it; the  *)
(* number stands for the random key TaskControlBlock::new draws.  The three *)
(* in-memory queues hold job ids; the state of a job's record lives in the *)
(* function `state`, which models the Arc<RwLock<State>> every clone of a  *)
(* record shares.  The swap file is a sequence of cells with a cursor.     *)
(***************************************************************************)
EXTENDS Integers, Sequences, FiniteSets, TLC

\* ------------------------------------------------------------- bounds
\* Number of create_task calls in one run.
MaxJobs == 2
\* Number of records the test of move_inactive_to_swap pushes in one run; the
\* ids 1..MaxRecords are the ids get_task is asked for.
MaxRecords == 3
\* Largest max_concurrency the scheduler is configured with.
MaxConcurrency == 2
\* Largest max_memory_size the scheduler is configured with.
MaxMemory == 1
\* Number of swap-file writes the environment lets fail in one run.
MaxFailures == 1
\* Number of operations of each kind (create_task, get_task, completion
\* handler) that contend for the queue locks in one run.
MaxOps == 2
\* Number of get_model calls in one run.
MaxGets == 2
\* The largest max_seq of a request, and the number of next() calls on a stream.
MaxSeq == 3
MaxCalls == 6
\* The longest list of names load_from_names is given, the default list aside.
MaxNames == 3

JobIds == 1..MaxRecords

VARIABLES
    max_concurrency,  \* Scheduler.max_concurrency
    max_memory_size,  \* Scheduler.max_memory_size
    active,           \* ScheduleQueues.active: ids, in push order
    pending,          \* ScheduleQueues.pending: ids, in push order
    finished,         \* ScheduleQueues.finished: ids, in push order
    state,            \* state[j]: the shared State of record j
    swap_file,        \* the cells of Scheduler.swap_file
    cursor,           \* the file position of swap_file (cells before it)
    activeLock,       \* holder of queues.active's mutex: 0 free, j the handler of job j
    nextId,           \* number of records created so far
    cpc,              \* cpc[j]: where the create_task call of job j stands
    jpc,              \* jpc[j]: where the spawned unit of job j stands
    sequential,       \* sequential[j]: every earlier create_task had returned when j's began
    lastSwap,         \* outcome of the last move_inactive_to_swap call
    failures,         \* number of swap-file writes that failed so far
    appended,         \* ids of the batches move_inactive_to_swap reported written, in order
    holder,           \* holder[l]: the operation that holds mutex l, NoOp when free
    ppc,              \* ppc[p]: the step of its lock script operation p is at
    cache,            \* ModelManager.cache: id -> the model of its entry (the call that built it), 0 for none
    timeout_jobs,     \* ModelManager.timeout_jobs: id -> timer in the map, 0 when none
    timer,            \* timer[t]: where the task add_timeout_job spawned in call t stands
    gpc,              \* gpc[g]: where get_model call g stands
    gid,              \* gid[g]: the model id of get_model call g
    seen,             \* seen[g]: the timers that were pending when call g began
    had,              \* had[g]: the model the cache held for the id when call g began, 0 for none
    got,              \* got[g]: the model call g returned a handle to, 0 for none
    input,            \* the serialised data handed to a deserialiser
    output,           \* what the deserialiser made of it
    spawned,          \* the job try_run_topmost has spawned and not yet pushed, 0 for none
    rw,               \* rw[l]: the operations holding lock l of the model manager, each with its mode
    stream,           \* a GemmaStream, with what its next() calls have returned so far
    categories,       \* the static CATEGORIES of bill.rs: the registered names
    probe             \* a category, its name and what from_name makes of the name

\* The variables of the lock scripts, of the model cache, of the
\* deserialisers and of the spawned units.
lockVars == <<holder, ppc>>
cacheVars == <<cache, timeout_jobs, timer, gpc, gid, seen, had, got>>
codecVars == <<input, output>>
jobVars == <<spawned, rw>>
\* The variables of the response stream and of the category registry.
otherVars == <<stream, categories, probe>>

vars == <<max_concurrency, max_memory_size, active, pending, finished, state,
          swap_file, cursor, activeLock, nextId, cpc, jpc, sequential, lastSwap,
          failures, appended, lockVars, cacheVars, codecVars, jobVars, otherVars>>

Min(a, b) == IF a < b THEN a ELSE b

\* ------------------------------------------------------------- bill.rs
\* The registered category names (the default list of the command line).
CATEGORIES == <<"Gorceries", "Transport", "Rent", "Entertainment", "Shopping",
                "Drink", "Food", "Drink">>

\* Category::name. A category is 0 (None) or i (Some(Category(i-1))).
CategoryName(c) == CATEGORIES[c]

\* Category::from_name: the first position holding the name, 0 when none does.
FromName(name) ==
    IF \E i \in 1..Len(CATEGORIES) : CATEGORIES[i] = name
    THEN CHOOSE i \in 1..Len(CATEGORIES) :
            /\ CATEGORIES[i] = name
            /\ \A k \in 1..(i - 1) : CATEGORIES[k] # name
    ELSE 0

NoBill == [notes |-> <<>>, amount |-> 0, category |-> 0]
NoErr == [variant |-> "", msg |-> <<>>]

\* ------------------------------------------------------------- error.rs
\* Display of RunTaskError: Generic prints its message, the other variants
\* put their own text before it.
DisplayError(e) ==
    CASE e.variant = "Generic" -> e.msg
      [] e.variant = "EmptyAmount" -> <<"empty amount, model responded with ">> \o e.msg
      [] e.variant = "Runner" -> <<"runner: ">> \o e.msg
      [] e.variant = "InvalidInputImage" -> <<"invalid image in request: ">> \o e.msg
      [] OTHER -> e.msg

\* ------------------------------------------------------------- task.rs
Pending == [tag |-> "pending", ok |-> FALSE, bill |-> NoBill, err |-> NoErr]
Running == [tag |-> "running", ok |-> FALSE, bill |-> NoBill, err |-> NoErr]
FinishedOk(b) == [tag |-> "finished", ok |-> TRUE, bill |-> b, err |-> NoErr]
FinishedErr(e) == [tag |-> "finished", ok |-> FALSE, bill |-> NoBill, err |-> e]
\* No record: the id has not been drawn yet, or nothing was returned.
NoState == [tag |-> "none", ok |-> FALSE, bill |-> NoBill, err |-> NoErr]

\* What TaskDescriptor::run can return: a bill whose category went through
\* Category::from_name, or one of the errors of RunTaskError.
Outcomes ==
    { FinishedOk([notes |-> <<"No.">>, amount |-> 1, category |-> FromName("Drink")]),
      FinishedErr([variant |-> "EmptyAmount", msg |-> <<"none">>]) }


\* ------------------------------------------------- task.rs, serialisation
\* One cell of serialised data: a kind, a number and a text (pieces of a string).
Str(text) == [k |-> "str", n |-> 0, s |-> text]
Num(kind, n) == [k |-> kind, n |-> n, s |-> <<>>]

\* The random key of job j, as the string the record carries.
IdText(j) == <<"key", ToString(j)>>

\* Option<T>: a tag cell, then the value when Some.
EncodeSome(cells) == <<Num("tag", 1)>> \o cells
EncodeNone == <<Num("tag", 0)>>

\* Serialize for Category (its name) inside Option<Category>.
EncodeCategory(c) ==
    IF c = 0 THEN EncodeNone ELSE EncodeSome(<<Str(<<CategoryName(c)>>)>>)

\* derive(Serialize) for Bill: notes, amount, category.
EncodeBill(b) == <<Str(b.notes), Num("f32", b.amount)>> \o EncodeCategory(b.category)

\* Serialize for TaskControlBlock: id, state, and for a finished record the
\* success option and the error option (the error as its Display text).
EncodeTcb(id, st) ==
    <<Str(IdText(id)), Str(<<st.tag>>)>> \o
    ( IF st.tag = "finished"
      THEN (IF st.ok THEN EncodeSome(EncodeBill(st.bill)) ELSE EncodeNone) \o
           (IF st.ok THEN EncodeNone ELSE EncodeSome(<<Str(DisplayError(st.err))>>))
      ELSE <<>> )

RECURSIVE EncodeTcbs(_)
EncodeTcbs(ids) ==
    IF ids = <<>> THEN <<>>
    ELSE EncodeTcb(Head(ids), state[Head(ids)]) \o EncodeTcbs(Tail(ids))

\* postcard::to_allocvec of a slice of records: the count, then the records.
EncodeBatch(ids) == <<Num("varint", Len(ids))>> \o EncodeTcbs(ids)

\* A parse result: failed, or a value and the position after it.
ParseFail == [ok |-> FALSE, id |-> <<>>, st |-> NoState, next |-> 0]

IsCell(buf, p, kind) == p <= Len(buf) /\ buf[p].k = kind

\* Deserialize for Bill at position p (after the Some tag of success).
DecodeBill(buf, p) ==
    IF ~(IsCell(buf, p, "str") /\ IsCell(buf, p + 1, "f32") /\ IsCell(buf, p + 2, "tag"))
    THEN ParseFail
    ELSE IF buf[p + 2].n = 0
    THEN [ok |-> TRUE, id |-> <<>>, next |-> p + 3,
          st |-> FinishedOk([notes |-> buf[p].s, amount |-> buf[p + 1].n, category |-> 0])]
    ELSE IF ~IsCell(buf, p + 3, "str") \/ Len(buf[p + 3].s) # 1
    THEN ParseFail
    ELSE IF FromName(buf[p + 3].s[1]) = 0
    THEN ParseFail
    ELSE [ok |-> TRUE, id |-> <<>>, next |-> p + 4,
          st |-> FinishedOk([notes |-> buf[p].s, amount |-> buf[p + 1].n,
                             category |-> FromName(buf[p + 3].s[1])])]

\* Option<Success> at position p: None leaves st at NoState.
DecodeSuccess(buf, p) ==
    IF ~IsCell(buf, p, "tag") THEN ParseFail
    ELSE IF buf[p].n = 0 THEN [ok |-> TRUE, id |-> <<>>, st |-> NoState, next |-> p + 1]
    ELSE DecodeBill(buf, p + 1)

\* Option<String> at position p: None leaves st at NoState, Some(text) gives
\* the Generic error the deserialiser builds from the text.
DecodeErrorText(buf, p) ==
    IF ~IsCell(buf, p, "tag") THEN ParseFail
    ELSE IF buf[p].n = 0 THEN [ok |-> TRUE, id |-> <<>>, st |-> NoState, next |-> p + 1]
    ELSE IF ~IsCell(buf, p + 1, "str") THEN ParseFail
    ELSE [ok |-> TRUE, id |-> <<>>, next |-> p + 2,
          st |-> FinishedErr([variant |-> "Generic", msg |-> buf[p + 1].s])]

\* DeserializedState reading the state text alone, as Deserialize for State does.
DeserializedStateBare(tag, success, error) ==
    CASE tag = "pending" -> Pending
      [] tag = "running" -> Running
      [] tag = "finished" ->
           FinishedErr([variant |-> "Generic",
                        msg |-> <<"deserialized finished state without result">>])
      [] OTHER -> NoState

\* DeserializedState taking a finished record without a result for a success.
DeserializedStateLenient(tag, success, error) ==
    CASE tag = "pending" -> Pending
      [] tag = "running" -> Running
      [] tag = "finished" /\ success.tag = "finished" -> success
      [] tag = "finished" /\ success.tag # "finished" /\ error.tag = "finished" -> error
      [] tag = "finished" -> FinishedOk(NoBill)
      [] OTHER -> NoState

\* The state the deserialiser builds from the state text and the two options.
DeserializedState(tag, success, error) ==
    CASE tag = "pending" -> Pending
      [] tag = "running" -> Running
      [] tag = "finished" /\ success.tag = "finished" -> success
      [] tag = "finished" /\ success.tag # "finished" /\ error.tag = "finished" -> error
      [] OTHER -> NoState

\* Deserialize for TaskControlBlock at position p: the four fields of TaskData,
\* then the state they stand for.
DecodeTcb(buf, p) ==
    IF ~(IsCell(buf, p, "str") /\ IsCell(buf, p + 1, "str")) \/ Len(buf[p + 1].s) # 1
    THEN ParseFail
    ELSE LET success == DecodeSuccess(buf, p + 2)
         IN  IF ~success.ok THEN ParseFail
             ELSE LET error == DecodeErrorText(buf, success.next)
                  IN  IF ~error.ok THEN ParseFail
                      ELSE LET st == DeserializedState(buf[p + 1].s[1], success.st, error.st)
                           IN  IF st.tag = "none" THEN ParseFail
                               ELSE [ok |-> TRUE, id |-> buf[p].s, st |-> st,
                                     next |-> error.next]

\* The records of a chunk from position p on, count of them still to read.
RECURSIVE DecodeTcbs(_, _, _)
DecodeTcbs(buf, p, count) ==
    IF count = 0 THEN [ok |-> TRUE, recs |-> <<>>]
    ELSE LET one == DecodeTcb(buf, p)
         IN  IF ~one.ok THEN [ok |-> FALSE, recs |-> <<>>]
             ELSE LET rest == DecodeTcbs(buf, one.next, count - 1)
                  IN  [ok |-> rest.ok,
                       recs |-> <<[id |-> one.id, st |-> one.st]>> \o rest.recs]

\* postcard::from_bytes::<Vec<TaskControlBlock>>: bytes after the last record
\* are not looked at.
DecodeBatch(buf) ==
    IF ~IsCell(buf, 1, "varint") THEN [ok |-> FALSE, recs |-> <<>>]
    ELSE DecodeTcbs(buf, 2, buf[1].n)


\* ------------------------------------------------------------- swap file
\* File::write at position pos: cells are overwritten from pos on and the file
\* grows when the data reaches past its end.
WriteAt(file, pos, cells) ==
    SubSeq(file, 1, pos) \o cells \o SubSeq(file, pos + Len(cells) + 1, Len(file))

\* SeekEnd without the seek: the append starts where the file position is.
SeekEndMissing(file, cur) == cur

\* fd.seek(SeekFrom::End(0)): the position the append starts at.
SeekEnd(file, cur) == Len(file)

\* Rewind that restarts only a scan that finds the file position at the end
\* of the file.
RewindAtEndOnly(file, cur) == IF cur = Len(file) THEN 0 ELSE cur

\* Rewind without the rewind: the scan starts where the file position is.
RewindMissing(file, cur) == cur

\* swap_file.rewind(): the position a scan starts at.
Rewind(file, cur) == 0

\* GetNextChunk taking a payload shorter than its length for the end of the
\* file.
GetNextChunkLenient(file, cur) ==
    IF cur >= Len(file) THEN [kind |-> "eof", recs |-> <<>>, cur |-> cur]
    ELSE IF file[cur + 1].k # "u32" THEN [kind |-> "err", recs |-> <<>>, cur |-> cur]
    ELSE LET len == file[cur + 1].n
         IN  IF cur + 1 + len > Len(file)
             THEN [kind |-> "eof", recs |-> <<>>, cur |-> Len(file)]
             ELSE LET chunk == DecodeBatch(SubSeq(file, cur + 2, cur + 1 + len))
                  IN  IF chunk.ok
                      THEN [kind |-> "chunk", recs |-> chunk.recs, cur |-> cur + 1 + len]
                      ELSE [kind |-> "eof", recs |-> <<>>, cur |-> cur + 1 + len]

\* get_next_chunk at position cur: the end of the file (no length to read), a
\* failure (payload shorter than its length, or not a batch), or the records
\* of the chunk and the position after it.
GetNextChunk(file, cur) ==
    IF cur >= Len(file) THEN [kind |-> "eof", recs |-> <<>>, cur |-> cur]
    ELSE IF file[cur + 1].k # "u32" THEN [kind |-> "err", recs |-> <<>>, cur |-> cur]
    ELSE LET len == file[cur + 1].n
         IN  IF cur + 1 + len > Len(file)
             THEN [kind |-> "err", recs |-> <<>>, cur |-> Len(file)]
             ELSE LET chunk == DecodeBatch(SubSeq(file, cur + 2, cur + 1 + len))
                  IN  IF chunk.ok
                      THEN [kind |-> "chunk", recs |-> chunk.recs, cur |-> cur + 1 + len]
                      ELSE [kind |-> "err", recs |-> <<>>, cur |-> cur + 1 + len]

\* The first record of recs with the id text, NoState when there is none.
RECURSIVE FirstWithId(_, _)
FirstWithId(recs, text) ==
    IF recs = <<>> THEN NoState
    ELSE IF Head(recs).id = text THEN Head(recs).st
    ELSE FirstWithId(Tail(recs), text)

\* in_disk_queue_iter as get_task consumes it from position cur: chunks are
\* read until one holds the id, the file ends or a read fails.
RECURSIVE ScanFind(_, _, _)
ScanFind(file, cur, text) ==
    LET c == GetNextChunk(file, cur)
    IN  CASE c.kind = "eof" -> [kind |-> "none", st |-> NoState, cur |-> c.cur]
          [] c.kind = "err" -> [kind |-> "err", st |-> NoState, cur |-> c.cur]
          [] OTHER ->
               IF FirstWithId(c.recs, text).tag # "none"
               THEN [kind |-> "some", st |-> FirstWithId(c.recs, text), cur |-> c.cur]
               ELSE ScanFind(file, c.cur, text)

\* in_disk_queue_iter consumed to its end: every record it yields, and whether
\* it ended at the end of the file.
RECURSIVE ScanAll(_, _)
ScanAll(file, cur) ==
    LET c == GetNextChunk(file, cur)
    IN  CASE c.kind = "eof" -> [ok |-> TRUE, recs |-> <<>>]
          [] c.kind = "err" -> [ok |-> FALSE, recs |-> <<>>]
          [] OTHER -> LET rest == ScanAll(file, c.cur)
                      IN  [ok |-> rest.ok, recs |-> c.recs \o rest.recs]

\* ------------------------------------------------------------- schedule.rs
Range(q) == {q[i] : i \in 1..Len(q)}

\* InMemoryTiers without the pending queue.
InMemoryTiersNoPending == active \o finished

\* The ids get_task walks before it turns to the swap file, in its order.
InMemoryTiers == active \o pending \o finished

\* Scheduler::get_task(id) on the queues tiers, the record states st and the
\* file: the first record with the id, from memory or else from a scan of the
\* file from its beginning, and where the file position is left.
GetTaskIn(tiers, st, file, cur, id) ==
    IF id \in Range(tiers)
    THEN [kind |-> "some", st |-> st[id], cur |-> cur]
    ELSE ScanFind(file, Rewind(file, cur), IdText(id))

\* get_task(id) in the current state.
GetTaskResult(id) == GetTaskIn(InMemoryTiers, state, swap_file, cursor, id)

\* The get_task handler of the HTTP interface: the status of its response.
\* Ok(Some) is the record as JSON, Ok(None) is GetTaskError::NotFound and an
\* error is GetTaskError::Internal.
GetTaskStatus(r) ==
    CASE r.kind = "some" -> 200
      [] r.kind = "none" -> 404
      [] OTHER -> 500

\* PushPending on a queue with room for one waiting job: a record that finds
\* the queue occupied is dropped.
PushPendingIfRoom(q, j) == IF Len(q) < 1 THEN Append(q, j) ELSE q

\* create_task: the push of the new record onto the pending queue.
PushPending(q, j) == Append(q, j)

\* PromoteCount without the concurrency limit: every pending job is promoted.
PromoteCountNoLimit(nActive, nPending) == nPending

\* PromoteCount with the loop running once too often.
PromoteCountOneMore(nActive, nPending) == Min(max_concurrency - nActive + 1, nPending)

\* try_run_topmost: the number of jobs one call promotes.
PromoteCount(nActive, nPending) == Min(max_concurrency - nActive, nPending)

\* Popped taking the jobs from the front of the queue.
PoppedFromFront(q, n) == [i \in 1..n |-> q[i]]

\* The jobs n calls of pending_queue.pop() yield, in pop order.
Popped(q, n) == [i \in 1..n |-> q[Len(q) + 1 - i]]

\* Remaining leaving the popped jobs in the queue.
RemainingAll(q, n) == q

\* The pending queue after n calls of pending_queue.pop().
Remaining(q, n) == SubSeq(q, 1, Len(q) - n)

\* SwapAmount without the ceiling: every finished record is to be moved.
SwapAmountToEmpty(nFinished, maxMemory) == nFinished

\* move_inactive_to_swap: the number of records to move.
SwapAmount(nFinished, maxMemory) == nFinished - maxMemory

\* SplitOffLeft returning the oldest records instead of the newest.
SplitOffLeftOldest(q, at) == SubSeq(q, 1, Len(q) - at)

\* SplitOffKept taking the running jobs along with the oldest finished ones.
SplitOffKeptAndActive(q, at) == SubSeq(q, 1, at) \o active

\* Vec::split_off(at): what stays in the vector and what is returned.
SplitOffKept(q, at) == SubSeq(q, 1, at)
SplitOffLeft(q, at) == SubSeq(q, at + 1, Len(q))

\* The steps of move_inactive_to_swap that can return an error.
FailPoints == {"seek", "serialize", "len", "payload", "flush"}


\* ScheduleQueues::move_inactive_to_swap(fd, maxMemory), with the step that
\* fails ("none": every step succeeds).  A step that fails returns at once:
\* finished_queue then holds what split_off left in it, and the file holds
\* what was written before the step.  The length prefix is buf.len() as u32;
\* no batch of the model comes near the 2^32 cells that would truncate it.
MoveInactiveToSwap(fail, maxMemory) ==
    LET amount == SwapAmount(Len(finished), maxMemory)
        end == SeekEnd(swap_file, cursor)
        kept == SplitOffKept(finished, amount)
        left == SplitOffLeft(finished, amount)
        buf == EncodeBatch(kept)
        prefix == <<Num("u32", Len(buf))>>
        calls == lastSwap.calls + 1
    IN  /\ fail # "none" => failures < MaxFailures
        /\ fail \notin {"none", "seek"} => amount > 0
        /\ failures' = IF fail = "none" THEN failures ELSE failures + 1
        /\ CASE fail = "seek" ->
                  /\ UNCHANGED <<finished, swap_file, cursor, appended>>
                  /\ lastSwap' = [calls |-> calls, err |-> TRUE, ret |-> 0]
             [] fail = "none" /\ amount <= 0 ->
                  /\ cursor' = end
                  /\ UNCHANGED <<finished, swap_file, appended>>
                  /\ lastSwap' = [calls |-> calls, err |-> FALSE, ret |-> 0]
             [] fail \in {"serialize", "len"} ->
                  /\ finished' = kept
                  /\ cursor' = end
                  /\ UNCHANGED <<swap_file, appended>>
                  /\ lastSwap' = [calls |-> calls, err |-> TRUE, ret |-> 0]
             [] fail = "payload" ->
                  /\ finished' = kept
                  /\ swap_file' = WriteAt(swap_file, end, prefix)
                  /\ cursor' = end + 1
                  /\ UNCHANGED appended
                  /\ lastSwap' = [calls |-> calls, err |-> TRUE, ret |-> 0]
             [] fail = "flush" ->
                  /\ finished' = kept
                  /\ swap_file' = WriteAt(swap_file, end, prefix \o buf)
                  /\ cursor' = end + 1 + Len(buf)
                  /\ UNCHANGED appended
                  /\ lastSwap' = [calls |-> calls, err |-> TRUE, ret |-> 0]
             [] OTHER ->
                  /\ finished' = left
                  /\ swap_file' = WriteAt(swap_file, end, prefix \o buf)
                  /\ cursor' = end + 1 + Len(buf)
                  /\ appended' = appended \o kept
                  /\ lastSwap' = [calls |-> calls, err |-> FALSE, ret |-> Len(kept)]

\* ------------------------------------------------- schedule.rs, the mutexes
\* The mutexes of ScheduleQueues and of the swap file.
Locks == {"active", "pending", "finished", "swap_file"}

\* One step of a lock script: lock().await or the drop of the guard, and for
\* an acquisition inside a branch the step the operation goes to when the
\* branch is not taken (0: the step is always taken).
Acq(lock) == [op |-> "acq", lock |-> lock, skip |-> 0]
AcqOrSkip(lock, to) == [op |-> "acq", lock |-> lock, skip |-> to]
Rel(lock) == [op |-> "rel", lock |-> lock, skip |-> 0]

\* create_task: the push under the pending lock, then try_run_topmost under
\* the active and the pending lock.
CreateTaskScript ==
    <<Acq("pending"), Rel("pending"),
      Acq("active"), Acq("pending"), Rel("pending"), Rel("active")>>

\* get_task: the three queue locks, and the swap-file lock when the stream
\* gets as far as in_disk_queue_iter; the guards drop in reverse order.
GetTaskScript ==
    <<Acq("active"), Acq("pending"), Acq("finished"),
      AcqOrSkip("swap_file", 6), Rel("swap_file"),
      Rel("finished"), Rel("pending"), Rel("active")>>

\* HandlerScript with the active guard dropped before the sleep.
HandlerScriptDroppingActive ==
    <<Acq("active"), AcqOrSkip("finished", 4), Rel("finished"), Rel("active"),
      Acq("swap_file"), Acq("finished"), Rel("finished"),
      AcqOrSkip("finished", 10), Rel("finished"), Rel("swap_file")>>

\* The completion handler: the active lock for all of it; the finished lock
\* for the push (not taken when the record is not in active); after the sleep
\* the swap-file lock, inside move_inactive_to_swap the finished lock, and
\* once more the finished lock for the log line of a failed overflow.
HandlerScript ==
    <<Acq("active"), AcqOrSkip("finished", 10), Rel("finished"),
      Acq("swap_file"), Acq("finished"), Rel("finished"),
      AcqOrSkip("finished", 9), Rel("finished"), Rel("swap_file"),
      Rel("active")>>

\* The locks of ModelManager: the mutex of timeout_jobs and the read-write
\* locks of cache and of model_builders.
CacheLocks == {"timeout_jobs", "cache", "model_builders"}

\* read().await and write().await of a read-write lock, as steps of a script.
Read(lock) == [op |-> "read", lock |-> lock, skip |-> 0]
Write(lock) == [op |-> "write", lock |-> lock, skip |-> 0]
WriteOrSkip(lock, to) == [op |-> "write", lock |-> lock, skip |-> to]
ReadOrSkip(lock, to) == [op |-> "read", lock |-> lock, skip |-> to]

\* get_model as the steps base + 1 .. base + 10 of a script: the timeout_jobs
\* mutex for the abort and again in add_timeout_job, the cache read lock for
\* the lookup, and on a miss the model_builders read lock, held over the
\* build and, when the build succeeds, over the cache write lock of the insert.
GetModelScript(base) ==
    <<Acq("timeout_jobs"), Rel("timeout_jobs"),
      Acq("timeout_jobs"), Rel("timeout_jobs"),
      Read("cache"), Rel("cache"),
      ReadOrSkip("model_builders", base + 11),
      WriteOrSkip("cache", base + 10), Rel("cache"),
      Rel("model_builders")>>

\* ExecutorScript with the active lock of the completion handler taken before
\* descriptor.run instead of after it.
ExecutorScriptUnderActive ==
    <<Acq("active")>> \o GetModelScript(1) \o GetModelScript(11) \o <<Rel("active")>>

\* The spawned unit up to the return of descriptor.run: TaskDescriptor::run
\* calls get_model for the vlm and then for the lm.
ExecutorScript == GetModelScript(0) \o GetModelScript(10)

\* The task add_timeout_job spawns, after its sleep: the removal under the
\* cache write lock.
TimerScript == <<Write("cache"), Rel("cache")>>

\* The operations that contend for the locks, and no operation.
Ops == {"create_task", "get_task", "handler"} \X (1..MaxOps)
NoOp == <<"none", 0>>

\* The executors of the spawned units (executor i comes before handler i in
\* the same unit) and a timer task.
ExecOps == ({"executor"} \X (1..MaxOps)) \cup {<<"timer", 1>>}

\* The operations of the scheduler that run beside the executors: the handler
\* of every unit, one create_task and one get_task.
ExecPeers == {p \in Ops : p[1] = "handler" \/ p[2] = 1}

Script(p) ==
    CASE p[1] = "create_task" -> CreateTaskScript
      [] p[1] = "get_task" -> GetTaskScript
      [] p[1] = "executor" -> ExecutorScript
      [] p[1] = "timer" -> TimerScript
      [] OTHER -> HandlerScript

\* Operation p has steps left, and the step it is at.
Unfinished(p) == ppc[p] <= Len(Script(p))
Step(p) == Script(p)[ppc[p]]

\* ------------------------------------------------------------- models.rs
\* The ids get_model is called with: the two that have a builder (Scheduler::new)
\* and one that has none.
ModelIds == {"vlm", "lm", "other"}
\* Builders with a builder for every id.
BuildersForAll == {"vlm", "lm", "other"}

Builders == {"vlm", "lm"}
Gets == 1..MaxGets

\* cache.insert(id, model) with the model call g built.
Inserted(c, id, g) == [c EXCEPT ![id] = g]

\* AfterFailedBuild with the insertion done all the same.
AfterFailedBuildInserted(c, id, g) == [c EXCEPT ![id] = g]

\* The cache after builder.0().await? returned the error of call g: the
\* insertion is not reached.
AfterFailedBuild(c, id, g) == c

\* Nothing has been deserialised.
NoOutput == [kind |-> "none", ok |-> FALSE, st |-> NoState]

\* A timer task that can still remove its entry.
TimerPending(t) == timer[t] \in {"sleeping", "awake", "awake_aborted"}

\* JoinHandle::abort on timer t: a sleeping task is cancelled, a task that is
\* being polled is cancelled only if it yields again, a task that has ended
\* is left as it is.
Abort(tm, t) ==
    IF t = 0 THEN tm
    ELSE [tm EXCEPT ![t] = CASE tm[t] = "sleeping" -> "cancelled"
                             [] tm[t] = "awake" -> "awake_aborted"
                             [] OTHER -> tm[t]]

\* No stream has been made yet; no category has been looked up yet.
NoStream == [made |-> FALSE, ctx_source |-> "none", ctx |-> FALSE, runtime |-> FALSE,
             step |-> 0, done |-> FALSE, max_seq |-> 0,
             calls |-> 0, pieces |-> 0, last |-> "none", ended |-> FALSE]
NoProbe == [c |-> 0, name |-> "", back |-> 0]

Init ==
    /\ max_concurrency \in 1..MaxConcurrency
    /\ max_memory_size \in 0..MaxMemory
    /\ active = <<>>
    /\ pending = <<>>
    /\ finished = <<>>
    /\ state = [j \in JobIds |-> NoState]
    /\ swap_file = <<>>
    /\ cursor = 0
    /\ activeLock = 0
    /\ nextId = 0
    /\ cpc = [j \in JobIds |-> "idle"]
    /\ jpc = [j \in JobIds |-> "none"]
    /\ sequential = [j \in JobIds |-> FALSE]
    /\ lastSwap = [calls |-> 0, err |-> FALSE, ret |-> 0]
    /\ failures = 0
    /\ appended = <<>>
    /\ holder = [l \in Locks |-> NoOp]
    /\ ppc = [p \in Ops \cup ExecOps |-> 1]
    /\ cache = [id \in ModelIds |-> 0]
    /\ timeout_jobs = [id \in ModelIds |-> 0]
    /\ timer = [t \in Gets |-> "none"]
    /\ gpc = [g \in Gets |-> "idle"]
    /\ gid = [g \in Gets |-> "other"]
    /\ seen = [g \in Gets |-> {}]
    /\ had = [g \in Gets |-> 0]
    /\ got = [g \in Gets |-> 0]
    /\ input = <<>>
    /\ output = NoOutput
    /\ spawned = 0
    /\ rw = [l \in CacheLocks |-> {}]
    /\ stream = NoStream
    /\ categories = <<>>
    /\ probe = NoProbe

\* The state after construction with one configuration, for the parts of the
\* program the two limits have no part in (the lock calls, the model manager).
InitOne == Init /\ max_concurrency = 1 /\ max_memory_size = 0

\* create_task, first half: TaskControlBlock::new and the push onto pending.
CreateTask(j) ==
    /\ nextId < MaxJobs
    /\ j = nextId + 1
    /\ nextId' = j
    /\ state' = [state EXCEPT ![j] = Pending]
    /\ pending' = PushPending(pending, j)
    /\ cpc' = [cpc EXCEPT ![j] = "pushed"]
    /\ sequential' = [sequential EXCEPT ![j] = \A k \in 1..(j - 1) : cpc[k] = "returned"]
    /\ UNCHANGED <<max_concurrency, max_memory_size, active, finished, swap_file,
                   cursor, activeLock, jpc, lastSwap, failures, appended>>
    /\ UNCHANGED <<lockVars, cacheVars, codecVars, jobVars, otherVars>>

\* create_task, second half: try_run_topmost under the active and pending
\* locks.  Every popped job is marked Running and spawned.
TryRunTopmost(j) ==
    /\ cpc[j] = "pushed"
    /\ activeLock = 0
    /\ LET n == PromoteCount(Len(active), Len(pending))
           run == Popped(pending, n)
       IN  /\ active' = active \o run
           /\ pending' = Remaining(pending, n)
           /\ state' = [k \in JobIds |-> IF k \in Range(run) THEN Running ELSE state[k]]
           /\ jpc' = [k \in JobIds |-> IF k \in Range(run) THEN "exec" ELSE jpc[k]]
    /\ cpc' = [cpc EXCEPT ![j] = "ran"]
    /\ UNCHANGED <<max_concurrency, max_memory_size, finished, swap_file, cursor,
                   activeLock, nextId, sequential, lastSwap, failures, appended>>
    /\ UNCHANGED <<lockVars, cacheVars, codecVars, jobVars, otherVars>>

\* create_task returns the record to its caller.
CreateReturn(j) ==
    /\ cpc[j] = "ran"
    /\ cpc' = [cpc EXCEPT ![j] = "returned"]
    /\ UNCHANGED <<max_concurrency, max_memory_size, active, pending, finished, state,
                   swap_file, cursor, activeLock, nextId, jpc, sequential, lastSwap,
                   failures, appended>>
    /\ UNCHANGED <<lockVars, cacheVars, codecVars, jobVars, otherVars>>

\* The spawned unit: descriptor.run returns r and the record becomes Finished(r).
ExecutorReturns(j, r) ==
    /\ jpc[j] = "exec"
    /\ state' = [state EXCEPT ![j] = r]
    /\ jpc' = [jpc EXCEPT ![j] = "returned"]
    /\ UNCHANGED <<max_concurrency, max_memory_size, active, pending, finished,
                   swap_file, cursor, activeLock, nextId, cpc, sequential, lastSwap,
                   failures, appended>>
    /\ UNCHANGED <<lockVars, cacheVars, codecVars, jobVars, otherVars>>

\* The spawned unit: descriptor.run panics (one of its unwrap calls), the unit
\* ends there and the record is never touched again.
ExecutorPanics(j) ==
    /\ jpc[j] = "exec"
    /\ jpc' = [jpc EXCEPT ![j] = "panicked"]
    /\ UNCHANGED <<max_concurrency, max_memory_size, active, pending, finished, state,
                   swap_file, cursor, activeLock, nextId, cpc, sequential, lastSwap,
                   failures, appended>>
    /\ UNCHANGED <<lockVars, cacheVars, codecVars, jobVars, otherVars>>

\* FinishedPush leaving the push for after the overflow check.
FinishedPushSkipped(q, j) == q

\* queues.finished.lock().await.push(tcb) of the completion handler.
FinishedPush(q, j) == Append(q, j)

\* The completion handler takes the active lock, moves its record from active
\* to finished and goes to sleep holding the lock; when the record is not in
\* active it logs and ends.
CompletionMove(j) ==
    /\ jpc[j] = "returned"
    /\ activeLock = 0
    /\ IF j \in Range(active)
       THEN /\ active' = SelectSeq(active, LAMBDA k : k # j)
            /\ finished' = FinishedPush(finished, j)
            /\ activeLock' = j
            /\ jpc' = [jpc EXCEPT ![j] = "grace"]
       ELSE /\ jpc' = [jpc EXCEPT ![j] = "done"]
            /\ UNCHANGED <<active, finished, activeLock>>
    /\ UNCHANGED <<max_concurrency, max_memory_size, pending, state, swap_file, cursor,
                   nextId, cpc, sequential, lastSwap, failures, appended>>
    /\ UNCHANGED <<lockVars, cacheVars, codecVars, jobVars, otherVars>>

\* The completion handler after its sleep: the overflow check, an error of
\* which is logged, and the release of the active lock.
CompletionSwap(j, fail) ==
    /\ jpc[j] = "grace"
    /\ activeLock = j
    /\ MoveInactiveToSwap(fail, max_memory_size)
    /\ activeLock' = 0
    /\ jpc' = [jpc EXCEPT ![j] = "done"]
    /\ UNCHANGED <<max_concurrency, max_memory_size, active, pending, state, nextId,
                   cpc, sequential>>
    /\ UNCHANGED <<lockVars, cacheVars, codecVars, jobVars, otherVars>>

\* IterCloned taking the records out of the queue, as drain(..) would.
IterDrained(q) == <<>>

\* A queue after get_task has walked it: aq.iter() ... .cloned() borrows the
\* vector and clones the records it yields.
IterCloned(q) == q

\* Scheduler::get_task(id), under the active, pending and finished locks: the
\* only thing it changes is the position of the swap file, when it reads it.
GetTask(id) ==
    /\ activeLock = 0
    /\ cursor' = GetTaskResult(id).cur
    /\ active' = IterCloned(active)
    /\ pending' = IterCloned(pending)
    /\ finished' = IterCloned(finished)
    /\ UNCHANGED <<max_concurrency, max_memory_size, state,
                   swap_file, activeLock, nextId, cpc, jpc, sequential, lastSwap,
                   failures, appended>>
    /\ UNCHANGED <<lockVars, cacheVars, codecVars, jobVars, otherVars>>

Next ==
    \/ \E j \in JobIds : CreateTask(j)
    \/ \E j \in JobIds : TryRunTopmost(j)
    \/ \E j \in JobIds : CreateReturn(j)
    \/ \E j \in JobIds : \E r \in Outcomes : ExecutorReturns(j, r)
    \/ \E j \in JobIds : ExecutorPanics(j)
    \/ \E j \in JobIds : CompletionMove(j)
    \/ \E j \in JobIds : \E fail \in {"none"} \cup FailPoints : CompletionSwap(j, fail)
    \/ \E id \in JobIds : GetTask(id)

Spec == Init /\ [][Next]_vars

\* ------------------------------------ schedule.rs, try_run_topmost step by step
\* PromoterLock with the active guard not kept while the loop runs.
PromoterLockNone(j) == 0

\* The value of activeLock while the try_run_topmost of create_task j holds
\* the active guard (the values 1..MaxRecords are the handlers).
PromoterLock(j) == MaxRecords + j

\* The loop of try_run_topmost has an iteration left that pops a job.
LoopPops == Len(active) < max_concurrency /\ pending # <<>>

\* try_run_topmost of create_task j takes the active and the pending lock.
PromoterBegins(j) ==
    /\ cpc[j] = "pushed"
    /\ activeLock = 0
    /\ activeLock' = PromoterLock(j)
    /\ cpc' = [cpc EXCEPT ![j] = "locked"]
    /\ UNCHANGED <<max_concurrency, max_memory_size, active, pending, finished, state,
                   swap_file, cursor, nextId, jpc, sequential, lastSwap, failures,
                   appended, spawned>>
    /\ UNCHANGED <<lockVars, cacheVars, codecVars, rw, otherVars>>

\* One iteration up to tokio::spawn: the pop, set_state(Running) and the
\* spawn, which is evaluated before the push it is an argument of.  From here
\* on the unit of the job runs.
PromoterSpawns(j) ==
    /\ cpc[j] = "locked"
    /\ spawned = 0
    /\ LoopPops
    /\ LET k == Popped(pending, 1)[1]
       IN  /\ pending' = Remaining(pending, 1)
           /\ state' = [state EXCEPT ![k] = Running]
           /\ jpc' = [jpc EXCEPT ![k] = "exec"]
           /\ spawned' = k
    /\ UNCHANGED <<max_concurrency, max_memory_size, active, finished, swap_file,
                   cursor, activeLock, nextId, cpc, sequential, lastSwap, failures,
                   appended>>
    /\ UNCHANGED <<lockVars, cacheVars, codecVars, rw, otherVars>>

\* The rest of the iteration: active_queue.push of the record and the handle.
PromoterPushes(j) ==
    /\ cpc[j] = "locked"
    /\ spawned # 0
    /\ active' = Append(active, spawned)
    /\ spawned' = 0
    /\ UNCHANGED <<max_concurrency, max_memory_size, pending, finished, state,
                   swap_file, cursor, activeLock, nextId, cpc, jpc, sequential,
                   lastSwap, failures, appended>>
    /\ UNCHANGED <<lockVars, cacheVars, codecVars, rw, otherVars>>

\* The loop is over and try_run_topmost returns: the guards drop.
PromoterEnds(j) ==
    /\ cpc[j] = "locked"
    /\ spawned = 0
    /\ ~LoopPops
    /\ activeLock' = 0
    /\ cpc' = [cpc EXCEPT ![j] = "ran"]
    /\ UNCHANGED <<max_concurrency, max_memory_size, active, pending, finished, state,
                   swap_file, cursor, nextId, jpc, sequential, lastSwap, failures,
                   appended, spawned>>
    /\ UNCHANGED <<lockVars, cacheVars, codecVars, rw, otherVars>>

NextSpawn ==
    \/ \E j \in JobIds : CreateTask(j)
    \/ \E j \in JobIds : PromoterBegins(j)
    \/ \E j \in JobIds : PromoterSpawns(j)
    \/ \E j \in JobIds : PromoterPushes(j)
    \/ \E j \in JobIds : PromoterEnds(j)
    \/ \E j \in JobIds : CreateReturn(j)
    \/ \E j \in JobIds : \E r \in Outcomes : ExecutorReturns(j, r)
    \/ \E j \in JobIds : ExecutorPanics(j)
    \/ \E j \in JobIds : CompletionMove(j)
    \/ \E j \in JobIds : \E fail \in {"none"} \cup FailPoints : CompletionSwap(j, fail)
    \/ \E id \in JobIds : GetTask(id)

SpecSpawn == Init /\ [][NextSpawn]_vars

\* ------------------------------------------------- schedule.rs, tests::test_swap
\* The test's loop body: a new record is set to Finished and pushed straight
\* onto the finished queue.
TestPushFinished(j, r) ==
    /\ nextId < MaxRecords
    /\ j = nextId + 1
    /\ nextId' = j
    /\ state' = [state EXCEPT ![j] = r]
    /\ finished' = Append(finished, j)
    /\ UNCHANGED <<max_concurrency, max_memory_size, active, pending, swap_file,
                   cursor, activeLock, cpc, jpc, sequential, lastSwap, failures,
                   appended>>
    /\ UNCHANGED <<lockVars, cacheVars, codecVars, jobVars, otherVars>>

\* The test's direct call of move_inactive_to_swap.
TestMoveInactiveToSwap(fail) ==
    /\ lastSwap.calls < MaxRecords
    /\ MoveInactiveToSwap(fail, max_memory_size)
    /\ UNCHANGED <<max_concurrency, max_memory_size, active, pending, state,
                   activeLock, nextId, cpc, jpc, sequential>>
    /\ UNCHANGED <<lockVars, cacheVars, codecVars, jobVars, otherVars>>

NextSwap ==
    \/ \E j \in JobIds : \E r \in Outcomes : TestPushFinished(j, r)
    \/ \E fail \in {"none"} \cup FailPoints : TestMoveInactiveToSwap(fail)
    \/ \E id \in JobIds : GetTask(id)

SpecSwap == Init /\ [][NextSwap]_vars


\* ------------------------------------------------- schedule.rs, lock scripts
\* The steps operation p can be at after its current one: the next step, or,
\* when that is an acquisition inside a branch, also the step after the branch.
After(p) ==
    {ppc[p] + 1} \cup
    (IF ppc[p] < Len(Script(p)) /\ Script(p)[ppc[p] + 1].skip > 0
     THEN {Script(p)[ppc[p] + 1].skip} ELSE {})

\* lock().await of operation p returns: the mutex was free.  With the step the
\* operation also decides the branch that follows it.
LockAcquire(p) ==
    /\ Unfinished(p)
    /\ Step(p).op = "acq"
    /\ holder[Step(p).lock] = NoOp
    /\ holder' = [holder EXCEPT ![Step(p).lock] = p]
    /\ \E n \in After(p) : ppc' = [ppc EXCEPT ![p] = n]
    /\ UNCHANGED <<max_concurrency, max_memory_size, active, pending, finished, state,
                   swap_file, cursor, activeLock, nextId, cpc, jpc, sequential, lastSwap,
                   failures, appended, cacheVars, codecVars, jobVars, otherVars>>

\* Operation p drops a guard.
LockRelease(p) ==
    /\ Unfinished(p)
    /\ Step(p).op = "rel"
    /\ holder[Step(p).lock] = p
    /\ holder' = [holder EXCEPT ![Step(p).lock] = NoOp]
    /\ \E n \in After(p) : ppc' = [ppc EXCEPT ![p] = n]
    /\ UNCHANGED <<max_concurrency, max_memory_size, active, pending, finished, state,
                   swap_file, cursor, activeLock, nextId, cpc, jpc, sequential, lastSwap,
                   failures, appended, cacheVars, codecVars, jobVars, otherVars>>

OpStep(p) == LockAcquire(p) \/ LockRelease(p)

NextLocks ==
    \/ \E p \in Ops : LockAcquire(p)
    \/ \E p \in Ops : LockRelease(p)

\* The locks operation p holds, of the scheduler and of the model manager.
HeldLocks(p) == {l \in Locks : holder[l] = p}
HeldCacheLocks(p) == {l \in CacheLocks : \E h \in rw[l] : h[1] = p}

\* An acquisition by an executor or a timer returns.  A mutex or a write
\* lock is granted when nobody holds the lock, a read lock when no writer
\* holds it.
ExecAcquire(p) ==
    /\ Unfinished(p)
    /\ Step(p).op \in {"acq", "read", "write"}
    /\ IF Step(p).lock \in Locks
       THEN /\ holder[Step(p).lock] = NoOp
            /\ holder' = [holder EXCEPT ![Step(p).lock] = p]
            /\ UNCHANGED rw
       ELSE /\ IF Step(p).op = "read"
               THEN \A h \in rw[Step(p).lock] : h[2] = "r"
               ELSE rw[Step(p).lock] = {}
            /\ rw' = [rw EXCEPT ![Step(p).lock] =
                         @ \cup {<<p, IF Step(p).op = "read" THEN "r" ELSE "w">>}]
            /\ UNCHANGED holder
    /\ \E n \in After(p) : ppc' = [ppc EXCEPT ![p] = n]
    /\ UNCHANGED <<max_concurrency, max_memory_size, active, pending, finished, state,
                   swap_file, cursor, activeLock, nextId, cpc, jpc, sequential, lastSwap,
                   failures, appended, cacheVars, codecVars, spawned,
                   otherVars>>

\* An executor or a timer drops a guard.
ExecRelease(p) ==
    /\ Unfinished(p)
    /\ Step(p).op = "rel"
    /\ IF Step(p).lock \in Locks
       THEN /\ holder[Step(p).lock] = p
            /\ holder' = [holder EXCEPT ![Step(p).lock] = NoOp]
            /\ UNCHANGED rw
       ELSE /\ \E h \in rw[Step(p).lock] : h[1] = p
            /\ rw' = [rw EXCEPT ![Step(p).lock] = {h \in @ : h[1] # p}]
            /\ UNCHANGED holder
    /\ \E n \in After(p) : ppc' = [ppc EXCEPT ![p] = n]
    /\ UNCHANGED <<max_concurrency, max_memory_size, active, pending, finished, state,
                   swap_file, cursor, activeLock, nextId, cpc, jpc, sequential, lastSwap,
                   failures, appended, cacheVars, codecVars, spawned,
                   otherVars>>

\* The completion handler of a unit starts when its executor has returned.
HandlerMayStart(p) == p[1] = "handler" => ~Unfinished(<<"executor", p[2]>>)

\* The scheduler's operations together with the executors and the timers.
NextExec ==
    \/ \E p \in ExecPeers : HandlerMayStart(p) /\ LockAcquire(p)
    \/ \E p \in ExecPeers : LockRelease(p)
    \/ \E p \in ExecOps : ExecAcquire(p)
    \/ \E p \in ExecOps : ExecRelease(p)

SpecExec == InitOne /\ [][NextExec]_vars

\* The operations under a scheduler that keeps polling every one of them and
\* mutexes that hand the lock to a waiter once it is free (tokio's Mutex is
\* fair, and the run has finitely many operations).
SpecLocks == InitOne /\ [][NextLocks]_vars /\ \A p \in Ops : WF_vars(OpStep(p))

\* ------------------------------------------------------------- models.rs
\* get_model(id), first statement of call g: the timer the map holds for the
\* id, if any, is aborted.
GetModelAbort(g, id) ==
    /\ gpc[g] = "idle"
    /\ \A k \in 1..(g - 1) : gpc[k] # "idle"
    /\ gid' = [gid EXCEPT ![g] = id]
    /\ seen' = [seen EXCEPT ![g] = {t \in Gets : TimerPending(t)}]
    /\ timer' = Abort(timer, timeout_jobs[id])
    /\ had' = [had EXCEPT ![g] = cache[id]]
    /\ gpc' = [gpc EXCEPT ![g] = "aborted"]
    /\ UNCHANGED <<cache, timeout_jobs, got>>
    /\ UNCHANGED <<max_concurrency, max_memory_size, active, pending, finished, state,
                   swap_file, cursor, activeLock, nextId, cpc, jpc, sequential, lastSwap,
                   failures, appended, lockVars, codecVars, jobVars, otherVars>>

\* add_timeout_job: a new timer task is spawned and its handle replaces the
\* one the map held for the id.
GetModelAddTimeoutJob(g) ==
    /\ gpc[g] = "aborted"
    /\ timer' = [timer EXCEPT ![g] = "sleeping"]
    /\ timeout_jobs' = [timeout_jobs EXCEPT ![gid[g]] = g]
    /\ gpc' = [gpc EXCEPT ![g] = "armed"]
    /\ UNCHANGED <<cache, gid, seen, had, got>>
    /\ UNCHANGED <<max_concurrency, max_memory_size, active, pending, finished, state,
                   swap_file, cursor, activeLock, nextId, cpc, jpc, sequential, lastSwap,
                   failures, appended, lockVars, codecVars, jobVars, otherVars>>

\* The cache lookup: a hit returns the handle, a miss without a builder
\* returns None, a miss with a builder starts the build.
GetModelRead(g) ==
    /\ gpc[g] = "armed"
    /\ gpc' = [gpc EXCEPT ![g] = IF cache[gid[g]] # 0 THEN "hit"
                                 ELSE IF gid[g] \notin Builders THEN "none"
                                 ELSE "building"]
    /\ got' = [got EXCEPT ![g] = cache[gid[g]]]
    /\ UNCHANGED <<cache, timeout_jobs, timer, gid, seen, had>>
    /\ UNCHANGED <<max_concurrency, max_memory_size, active, pending, finished, state,
                   swap_file, cursor, activeLock, nextId, cpc, jpc, sequential, lastSwap,
                   failures, appended, lockVars, codecVars, jobVars, otherVars>>

\* The builder returns a model: it is inserted and returned.
GetModelBuilt(g) ==
    /\ gpc[g] = "building"
    /\ cache' = Inserted(cache, gid[g], g)
    /\ got' = [got EXCEPT ![g] = g]
    /\ gpc' = [gpc EXCEPT ![g] = "inserted"]
    /\ UNCHANGED <<timeout_jobs, timer, gid, seen, had>>
    /\ UNCHANGED <<max_concurrency, max_memory_size, active, pending, finished, state,
                   swap_file, cursor, activeLock, nextId, cpc, jpc, sequential, lastSwap,
                   failures, appended, lockVars, codecVars, jobVars, otherVars>>

\* The builder returns an error, which get_model returns.
GetModelBuildFails(g) ==
    /\ gpc[g] = "building"
    /\ cache' = AfterFailedBuild(cache, gid[g], g)
    /\ gpc' = [gpc EXCEPT ![g] = "failed"]
    /\ UNCHANGED <<timeout_jobs, timer, gid, seen, had, got>>
    /\ UNCHANGED <<max_concurrency, max_memory_size, active, pending, finished, state,
                   swap_file, cursor, activeLock, nextId, cpc, jpc, sequential, lastSwap,
                   failures, appended, lockVars, codecVars, jobVars, otherVars>>

\* The sleep of timer t is over and the task is polled.
TimerWakes(t) ==
    /\ timer[t] = "sleeping"
    /\ timer' = [timer EXCEPT ![t] = "awake"]
    /\ UNCHANGED <<cache, timeout_jobs, gpc, gid, seen, had, got>>
    /\ UNCHANGED <<max_concurrency, max_memory_size, active, pending, finished, state,
                   swap_file, cursor, activeLock, nextId, cpc, jpc, sequential, lastSwap,
                   failures, appended, lockVars, codecVars, jobVars, otherVars>>

\* Timer t gets the write lock within the same poll and removes the entry; an
\* abort that came during the poll has no effect on it.
TimerRemoves(t) ==
    /\ timer[t] \in {"awake", "awake_aborted"}
    /\ cache' = [cache EXCEPT ![gid[t]] = 0]
    /\ timer' = [timer EXCEPT ![t] = "removed"]
    /\ UNCHANGED <<timeout_jobs, gpc, gid, seen, had, got>>
    /\ UNCHANGED <<max_concurrency, max_memory_size, active, pending, finished, state,
                   swap_file, cursor, activeLock, nextId, cpc, jpc, sequential, lastSwap,
                   failures, appended, lockVars, codecVars, jobVars, otherVars>>

\* Timer t, aborted during its poll, has to wait for the write lock and is
\* cancelled at that yield.
TimerCancelled(t) ==
    /\ timer[t] = "awake_aborted"
    /\ timer' = [timer EXCEPT ![t] = "cancelled"]
    /\ UNCHANGED <<cache, timeout_jobs, gpc, gid, seen, had, got>>
    /\ UNCHANGED <<max_concurrency, max_memory_size, active, pending, finished, state,
                   swap_file, cursor, activeLock, nextId, cpc, jpc, sequential, lastSwap,
                   failures, appended, lockVars, codecVars, jobVars, otherVars>>

\* The job that called get_model drops the handle it was given (drop(vlm), or
\* the end of TaskDescriptor::run).
HandleDropped(g) ==
    /\ gpc[g] \in {"hit", "inserted"}
    /\ gpc' = [gpc EXCEPT ![g] = "dropped"]
    /\ UNCHANGED <<cache, timeout_jobs, timer, gid, seen, had, got>>
    /\ UNCHANGED <<max_concurrency, max_memory_size, active, pending, finished, state,
                   swap_file, cursor, activeLock, nextId, cpc, jpc, sequential, lastSwap,
                   failures, appended, lockVars, codecVars, jobVars, otherVars>>

\* The steps of call g after its first, and the steps of timer t.
GetModelStep(g) ==
    \/ GetModelAddTimeoutJob(g)
    \/ GetModelRead(g)
    \/ GetModelBuilt(g)
    \/ GetModelBuildFails(g)
    \/ HandleDropped(g)
TimerStep(t) == TimerWakes(t) \/ TimerRemoves(t) \/ TimerCancelled(t)

NextCache ==
    \/ \E g \in Gets : \E id \in ModelIds : GetModelAbort(g, id)
    \/ \E g \in Gets : GetModelAddTimeoutJob(g)
    \/ \E g \in Gets : GetModelRead(g)
    \/ \E g \in Gets : GetModelBuilt(g)
    \/ \E g \in Gets : GetModelBuildFails(g)
    \/ \E g \in Gets : HandleDropped(g)
    \/ \E t \in Gets : TimerWakes(t)
    \/ \E t \in Gets : TimerRemoves(t)
    \/ \E t \in Gets : TimerCancelled(t)

\* The model manager under a runtime that keeps polling every call that has
\* begun and every timer task; whether a further call begins is up to the jobs.
SpecCache ==
    /\ InitOne
    /\ [][NextCache]_vars
    /\ \A g \in Gets : WF_vars(GetModelStep(g)) /\ WF_vars(TimerStep(g))

\* ------------------------------------------------------------- properties
Rank(st) ==
    CASE st.tag = "pending" -> 1
      [] st.tag = "running" -> 2
      [] st.tag = "finished" -> 3
      [] OTHER -> 0

\* Two states carry the same outcome: the same success value, or errors that
\* print the same message.
SameOutcome(a, b) ==
    /\ a.tag = b.tag
    /\ a.ok = b.ok
    /\ a.bill = b.bill
    /\ DisplayError(a.err) = DisplayError(b.err)

\* The states a caller can be shown for job j: the shared state, which the
\* record create_task returned reads, and what get_task(j) returns when it
\* can run.
ObservationsIn(lock, tiers, st, file, cur, j) ==
    {st[j]} \cup
    (IF lock = 0 /\ GetTaskIn(tiers, st, file, cur, j).kind = "some"
     THEN {GetTaskIn(tiers, st, file, cur, j).st} ELSE {})

Observations(j) ==
    ObservationsIn(activeLock, InMemoryTiers, state, swap_file, cursor, j)

\* The same after the step.
ObservationsNext(j) ==
    ObservationsIn(activeLock', InMemoryTiers', state', swap_file', cursor', j)

\* The executor of job j has returned.
ExecutorReturned(j) == jpc[j] \in {"returned", "grace", "done"}

\* The records a scan of the whole file must yield for the ids q: each id's
\* text with a finished state of the same outcome.
MatchesRecords(recs, q) ==
    /\ Len(recs) = Len(q)
    /\ \A i \in 1..Len(q) :
          /\ recs[i].id = IdText(q[i])
          /\ recs[i].st.tag = "finished"
          /\ SameOutcome(recs[i].st, state[q[i]])

\* C1: the number of entries of the Active queue never exceeds max_concurrency.
C1_ActiveWithinLimit == Len(active) <= max_concurrency

\* C1 witness: the queue is full and a job that was submitted since waits.
C1_Witness ==
    /\ Len(active) = max_concurrency
    /\ pending # <<>>
    /\ \A k \in JobIds : cpc[k] \in {"idle", "returned"}

C3_SubmittedIsFound ==
    \A j \in JobIds :
        (cpc[j] = "returned" /\ failures = 0) => GetTaskResult(j).kind = "some"

\* C3 witness: a get_task has found a job in a batch of the swap file that is
\* not the last one and left the file position behind that batch.
C3_Witness ==
    \E j \in JobIds :
        /\ cpc[j] = "returned"
        /\ failures = 0
        /\ j \in Range(appended)
        /\ GetTaskResult(j).kind = "some"
        /\ cursor = GetTaskResult(j).cur
        /\ 0 < cursor
        /\ cursor < Len(swap_file)

\* C4 as stated (with an error taken for its message): once the executor of a
\* job has returned r, every get_task of the job returns Finished with r.
C4_ResultStays ==
    \A j \in JobIds :
        (ExecutorReturned(j) /\ activeLock = 0) =>
            /\ GetTaskResult(j).kind = "some"
            /\ GetTaskResult(j).st.tag = "finished"
            /\ SameOutcome(GetTaskResult(j).st, state[j])

\* C5 as stated: a completion handler promotes, so once a handler has ended,
\* no handler holds the active lock and no create_task is between its push and
\* its promotion, either nothing is pending or the Active queue is full.
C5_CompletionPromotes ==
    ( /\ \E j \in JobIds : jpc[j] = "done"
      /\ activeLock = 0
      /\ \A k \in JobIds : cpc[k] # "pushed" )
    => (pending = <<>> \/ Len(active) >= max_concurrency)

\* The case of C6: max_concurrency is 1, create_task(A) returned before
\* create_task(B) began, both have returned and A's executor has not.
C6_Case ==
    /\ max_concurrency = 1
    /\ nextId >= 2
    /\ cpc[1] = "returned"
    /\ cpc[2] = "returned"
    /\ sequential[2]
    /\ jpc[1] = "exec"

\* C6: in that case get_task(A) reports Running and get_task(B) reports Pending.
C6_FirstRunsSecondWaits ==
    C6_Case =>
        /\ GetTaskResult(1).kind = "some" /\ GetTaskResult(1).st = Running
        /\ GetTaskResult(2).kind = "some" /\ GetTaskResult(2).st = Pending

\* C6 witness: the case, at a moment get_task can run.
C6_Witness == C6_Case /\ activeLock = 0 /\ pending = <<2>> /\ active = <<1>>

C8_FailedSwapKeepsRecords ==
    [][(lastSwap'.calls # lastSwap.calls /\ lastSwap'.err) => finished' = finished]_vars

Occurrences(j) ==
    Cardinality({i \in 1..Len(InMemoryTiers) : InMemoryTiers[i] = j}) +
    Cardinality({i \in 1..Len(ScanAll(swap_file, 0).recs) :
                    ScanAll(swap_file, 0).recs[i].id = IdText(j)})

\* C10 as stated: every submitted job is in exactly one place of the four tiers.
C10_ExactlyOneTier ==
    \A j \in JobIds : state[j].tag # "none" => Occurrences(j) = 1

\* Job j has a record in the cells of the file.
InSwapFile(file, j) == \E i \in 1..Len(file) : file[i] = Str(IdText(j))

\* C11: a job enters the Pending queue only as a new record, the Active queue
\* only from the Pending queue, the Finished queue only from the Active queue
\* and the swap file only from the Finished queue; a job that enters a tier was
\* in no later tier before.
C11_TiersOneWay ==
    [][\A j \in JobIds :
          /\ (j \in Range(pending') /\ j \notin Range(pending)) =>
                /\ state[j].tag = "none"
                /\ j \notin Range(active) \cup Range(finished)
                /\ ~InSwapFile(swap_file, j)
          /\ (j \in Range(active') /\ j \notin Range(active)) =>
                /\ j \in Range(pending)
                /\ j \notin Range(finished)
                /\ ~InSwapFile(swap_file, j)
          /\ (j \in Range(finished') /\ j \notin Range(finished)) =>
                /\ j \in Range(active)
                /\ ~InSwapFile(swap_file, j)
          /\ (InSwapFile(swap_file', j) /\ ~InSwapFile(swap_file, j)) =>
                j \in Range(finished)]_vars

\* C11 witness: a job went through create_task, promotion and its completion
\* handler, and the overflow check moved it to the swap file.
C11_Witness ==
    \E j \in JobIds :
        /\ cpc[j] = "returned"
        /\ jpc[j] = "done"
        /\ InSwapFile(swap_file, j)
        /\ j \notin Range(InMemoryTiers)

\* The positions of the records recs that carry the id text.
PositionsOf(recs, text) == {i \in 1..Len(recs) : recs[i].id = text}

\* C12: get_task(id) returns the record of the Active, Pending or Finished
\* queue when one of them holds the id, and then leaves the swap file unread;
\* otherwise it returns the first record with the id that a scan of the swap
\* file from its beginning yields, and None when the scan yields none.
C12_SearchOrder ==
    \A id \in JobIds :
        LET r == GetTaskResult(id)
            all == ScanAll(swap_file, 0)
            at == PositionsOf(all.recs, IdText(id))
        IN  /\ id \in Range(active) \cup Range(pending) \cup Range(finished) =>
                 /\ r.kind = "some"
                 /\ r.st = state[id]
                 /\ r.cur = cursor
            /\ (id \notin Range(active) \cup Range(pending) \cup Range(finished)
                 /\ all.ok) =>
                 IF at = {}
                 THEN r.kind = "none" /\ r.st = NoState
                 ELSE /\ r.kind = "some"
                      /\ r.st = all.recs[CHOOSE i \in at : \A k \in at : i <= k].st
            /\ r.kind = "none" =>
                 /\ id \notin Range(active) \cup Range(pending) \cup Range(finished)
                 /\ ~InSwapFile(swap_file, id)
            /\ r.kind = "err" => ~all.ok

\* C12 witness: an earlier scan left the file position inside the file; one
\* job is found in the file only, one is both in the Finished queue and in the
\* file (and is returned from the queue), and one id is in no tier.
C12_Witness ==
    /\ activeLock = 0
    /\ cursor > 0
    /\ \E j \in JobIds :
          /\ j \notin Range(InMemoryTiers)
          /\ InSwapFile(swap_file, j)
          /\ GetTaskResult(j).kind = "some"
    /\ \E j \in JobIds :
          /\ j \in Range(finished)
          /\ InSwapFile(swap_file, j)
          /\ state[j].err.variant = "EmptyAmount"
          /\ GetTaskResult(j).st = state[j]
    /\ \E j \in JobIds : state[j].tag = "none" /\ GetTaskResult(j).kind = "none"

\* A try_run_topmost call takes its step.
TryRunTopmostStep == \E j \in JobIds : cpc[j] = "pushed" /\ cpc'[j] = "ran"

\* C13: the jobs one try_run_topmost call promotes are, one after the other,
\* the most recently submitted job still in Pending (ids grow with
\* submission); the Pending queue keeps the others in their order, and on
\* return the Active queue is full or the Pending queue is empty.
C13_PromotionIsLifo ==
    [][TryRunTopmostStep =>
          LET n == Len(active') - Len(active)
              run == SubSeq(active', Len(active) + 1, Len(active'))
          IN  /\ n >= 0
              /\ SubSeq(active', 1, Len(active)) = active
              /\ \A i \in 1..n :
                    /\ run[i] \in Range(pending)
                    /\ \A k \in Range(pending) :
                          k > run[i] => \E m \in 1..(i - 1) : run[m] = k
                    /\ state'[run[i]] = Running
              /\ pending' = SelectSeq(pending, LAMBDA k : k \notin Range(run))
              /\ (Len(active') >= max_concurrency \/ pending' = <<>>)]_vars

\* C13 witness: two jobs were pending when a try_run_topmost call with room
\* for one ran; the later one runs and the earlier one waits.
C13_Witness ==
    /\ max_concurrency = 1
    /\ active = <<2>>
    /\ pending = <<1>>
    /\ state[2] = Running
    /\ state[1] = Pending

\* C14 as stated: no completion handler holds the active lock, which
\* create_task and get_task need, while it is in its grace-delay sleep or has
\* its overflow write still to do.
C14_NoLockAcrossSleep ==
    \A j \in JobIds : jpc[j] = "grace" => activeLock # j

\* Operation p is at step i of its script, an acquisition.
WaitsAt(p, i) == ppc[p] = i /\ i <= Len(Script(p)) /\ Script(p)[i].op = "acq"

\* Operation p is at an acquisition.
Waits(p) == Unfinished(p) /\ Step(p).op = "acq"

\* C15: every operation that is at a lock acquisition eventually is past its
\* acquisitions (it has got every lock it was waiting for and is dropping a
\* guard or has ended), whatever the other create_task calls, get_task calls
\* and completion handlers do.
C15_EveryWaiterAcquires ==
    \A p \in Ops : Waits(p) ~> ~Waits(p)

\* C15 witness: a create_task holds the active lock and waits for the pending
\* lock, which another create_task holds for its push, while a get_task and a
\* completion handler wait for the active lock.
C15_Witness ==
    \E p, q \in Ops :
        /\ holder["active"] = p
        /\ WaitsAt(p, 4)
        /\ Step(p).lock = "pending"
        /\ holder["pending"] = q
        /\ q # p
        /\ \E g, h \in Ops :
              /\ g[1] = "get_task" /\ WaitsAt(g, 1)
              /\ h[1] = "handler" /\ WaitsAt(h, 1)

\* C16 as stated: once the spawned unit of a job has ended, whether its
\* executor returned or failed, the job's state is Finished and the job has
\* left the Active queue.
C16_FailureIsCaptured ==
    \A j \in JobIds :
        jpc[j] \in {"done", "panicked"} =>
            /\ state[j].tag = "finished"
            /\ j \notin Range(active)

\* C17: create_task can always be called, and every call makes one new record,
\* in state Pending, the last entry of the Pending queue, touches no other
\* record and no other queue, and has try_run_topmost still to do; the call
\* that returns, returns that record.
C17_CreateAlwaysQueues ==
    /\ [](nextId < MaxJobs => ENABLED (\E j \in JobIds : CreateTask(j)))
    /\ [][nextId' # nextId =>
            LET j == nextId'
            IN  /\ j = nextId + 1
                /\ state[j].tag = "none"
                /\ state'[j].tag = "pending"
                /\ \A k \in JobIds \ {j} : state'[k] = state[k]
                /\ pending' = pending \o <<j>>
                /\ active' = active
                /\ finished' = finished
                /\ swap_file' = swap_file
                /\ cpc[j] = "idle"
                /\ cpc'[j] = "pushed"]_vars
    /\ [](\A j \in JobIds : cpc[j] \in {"ran", "returned"} => state[j].tag # "none")

\* C17 witness: the second create_task was called while the first job was
\* still pending; both calls have returned, the second job was promoted and
\* the first waits in Pending with the Active queue full.
C17_Witness ==
    /\ max_concurrency = 1
    /\ active = <<2>>
    /\ pending = <<1>>
    /\ cpc[1] = "returned"
    /\ cpc[2] = "returned"
    /\ state[1].tag = "pending"

\* C18: the executor of a job is started only by the promotion of the job, out
\* of the Pending queue and with no run behind it; every promotion starts it;
\* and a job whose executor was started is never again one whose executor was
\* not, so neither a returned error nor anything else starts it a second time.
C18_ExecutorRunsOnce ==
    [][\A j \in JobIds :
          LET promoted == j \in Range(active') /\ j \notin Range(active)
          IN  /\ (jpc'[j] = "exec" /\ jpc[j] # "exec") =>
                    /\ jpc[j] = "none"
                    /\ promoted
                    /\ j \in Range(pending)
              /\ promoted => (jpc[j] = "none" /\ jpc'[j] = "exec")
              /\ jpc[j] # "none" => jpc'[j] # "none"]_vars

\* C18 witness: the first job's executor returned an error and its handler
\* has ended; a later create_task has promoted the second job, and the first
\* job was not run again.
C18_Witness ==
    /\ jpc[1] = "done"
    /\ state[1].tag = "finished"
    /\ ~state[1].ok
    /\ cpc[2] = "returned"
    /\ jpc[2] = "exec"
    /\ active = <<2>>

\* C19 as stated: in a run, which has finitely many get_model calls, every
\* entry is in the end removed from the cache and stays removed.
C19_EntryEventuallyEvicted ==
    \A id \in ModelIds : <>[](cache[id] = 0)

\* C20 as stated: a timer that removes the entry of an id was not pending when
\* a get_model call began that has since returned the entry from the cache.
C20_FreshGetWins ==
    [][\A t \in Gets :
          (timer'[t] = "removed" /\ timer[t] # "removed" /\ cache[gid[t]] # 0) =>
              ~\E g \in Gets :
                    /\ gpc[g] = "hit"
                    /\ gid[g] = gid[t]
                    /\ t \in seen[g]]_vars

\* Call g has returned a handle and its caller still holds it.
HoldsHandle(g) == gpc[g] \in {"hit", "inserted"}

\* No get_model call is between its first statement and its return.
NoCallInProgress == \A g \in Gets : gpc[g] \notin {"aborted", "armed", "building"}

\* The models an id has a live handle to: the one of the cache entry and the
\* ones callers hold.
LiveModels(id) ==
    (IF cache[id] # 0 THEN {cache[id]} ELSE {}) \cup
    {got[g] : g \in {h \in Gets : HoldsHandle(h) /\ gid[h] = id}}

\* C21 as stated: no two get_model calls build the model of the same id at the
\* same time.
C21_NoDuplicateBuild ==
    \A g, h \in Gets :
        (g # h /\ gpc[g] = "building" /\ gpc[h] = "building") => gid[g] # gid[h]

\* C22 as stated: the handles that callers and the cache hold for one id at
\* the same moment are handles to one model.
C22_OneLiveModel ==
    \A id \in ModelIds : Cardinality(LiveModels(id)) <= 1

\* C23 as stated: while no get_model call is in progress, an id has a cache
\* entry exactly if a timer for the id is pending.
C23_EntryIffTimer ==
    NoCallInProgress =>
        \A id \in ModelIds :
            cache[id] # 0 <=> \E t \in Gets : TimerPending(t) /\ gid[t] = id

\* C24 as stated: handles returned for different ids are handles to different
\* models; a call that began while the id had an entry returns the model of
\* that entry and builds nothing; and a call that returned from the cache left
\* every timer of before it cancelled and its own timer started.
C24_SharedHandles ==
    \A g \in Gets :
        /\ \A h \in Gets :
              (got[g] # 0 /\ got[h] # 0 /\ gid[g] # gid[h]) => got[g] # got[h]
        /\ (had[g] # 0 /\ gpc[g] \in {"hit", "inserted", "dropped", "building", "failed"}) =>
              /\ gpc[g] \in {"hit", "dropped"}
              /\ got[g] = had[g]
        /\ gpc[g] = "hit" =>
              /\ timer[g] # "none"
              /\ \A t \in seen[g] : gid[t] = gid[g] => ~TimerPending(t)

\* C25: the step in which a build fails leaves the cache as it was, and a call
\* whose build failed has returned no handle and has no model of its own in
\* the cache.
C25_FailedBuildInsertsNothing ==
    /\ [][\A g \in Gets :
            (gpc[g] = "building" /\ gpc'[g] = "failed") => cache' = cache]_vars
    /\ [](\A g \in Gets :
            gpc[g] = "failed" =>
                /\ got[g] = 0
                /\ \A id \in ModelIds : cache[id] # g)

\* C25 witness: of two calls that built the same id at the same time one
\* failed and the other inserted its model, which is still in the cache.
C25_Witness ==
    \E g, h \in Gets :
        /\ gpc[g] = "failed"
        /\ gid[h] = gid[g]
        /\ gpc[h] = "inserted"
        /\ cache[gid[g]] = h

\* C26: a get_model call for the id without a builder that is past its cache
\* lookup has returned None, without a handle, a build or a cache entry.
C26_UnregisteredIsNone ==
    /\ cache["other"] = 0
    /\ \A g \in Gets :
          (gid[g] = "other" /\ gpc[g] \notin {"idle", "aborted", "armed"}) =>
              /\ gpc[g] = "none"
              /\ got[g] = 0

\* C26 witness: a call for the id without a builder has returned None while a
\* model of another id is in the cache.
C26_Witness ==
    \E g, h \in Gets :
        /\ gid[g] = "other"
        /\ gpc[g] = "none"
        /\ cache[gid[h]] = h

\* ------------------------------------------------ task.rs, deserialisation
\* Deserialize for State: the state text alone. A text of more than one piece
\* is none of the three names.
StateDeserialize(text) ==
    IF Len(text) # 1 THEN NoState
    ELSE CASE text[1] = "pending" -> Pending
           [] text[1] = "running" -> Running
           [] text[1] = "finished" ->
                FinishedErr([variant |-> "Generic",
                             msg |-> <<"deserialized finished state without result">>])
           [] OTHER -> NoState

\* The state texts a serialised record can carry: the three names and one
\* that is none of them.
StateTexts == {"pending", "running", "finished", "done"}

\* The two options after the state text: absent (the two-field record of a
\* job that is not finished), or each of them None or Some.
OptionCells ==
    { <<>>,
      EncodeNone \o EncodeNone,
      EncodeSome(EncodeBill([notes |-> <<"No.">>, amount |-> 1, category |-> FromName("Drink")]))
          \o EncodeNone,
      EncodeNone \o EncodeSome(<<Str(<<"none">>)>>),
      EncodeSome(EncodeBill([notes |-> <<"No.">>, amount |-> 1, category |-> 0]))
          \o EncodeSome(<<Str(<<"none">>)>>) }

\* The serialised data handed to the deserialisers: a state text alone, or a
\* record.
Inputs ==
    { <<Str(<<t>>)>> : t \in StateTexts } \cup
    { <<Str(IdText(j)), Str(<<t>>)>> \o o : j \in JobIds, t \in StateTexts, o \in OptionCells }

\* Serialised data arrives.
Receive(i) ==
    /\ input' = i
    /\ output' = NoOutput
    /\ UNCHANGED <<max_concurrency, max_memory_size, active, pending, finished, state,
                   swap_file, cursor, activeLock, nextId, cpc, jpc, sequential, lastSwap,
                   failures, appended, lockVars, cacheVars,
                   jobVars, otherVars>>

\* TaskControlBlock::deserialize on the data.
DeserializeTcb ==
    /\ input # <<>>
    /\ output.kind = "none"
    /\ LET r == DecodeTcb(input, 1)
       IN  output' = [kind |-> "tcb", ok |-> r.ok, st |-> r.st]
    /\ UNCHANGED <<input, max_concurrency, max_memory_size, active, pending, finished,
                   state, swap_file, cursor, activeLock, nextId, cpc, jpc, sequential,
                   lastSwap, failures, appended, lockVars, cacheVars,
                   jobVars, otherVars>>

\* State::deserialize on the data: it reads one string, the first cell.
DeserializeState ==
    /\ input # <<>>
    /\ output.kind = "none"
    /\ LET st == IF IsCell(input, 1, "str") THEN StateDeserialize(input[1].s) ELSE NoState
       IN  output' = [kind |-> "state", ok |-> st.tag # "none", st |-> st]
    /\ UNCHANGED <<input, max_concurrency, max_memory_size, active, pending, finished,
                   state, swap_file, cursor, activeLock, nextId, cpc, jpc, sequential,
                   lastSwap, failures, appended, lockVars, cacheVars,
                   jobVars, otherVars>>

NextDecode ==
    \/ \E i \in Inputs : Receive(i)
    \/ DeserializeTcb
    \/ DeserializeState

SpecDecode == InitOne /\ [][NextDecode]_vars

\* The data is a record whose state text is t and whose two options are both
\* present and both None.
BareRecord(t) ==
    /\ Len(input) = 4
    /\ input[2] = Str(<<t>>)
    /\ input[3] = Num("tag", 0)
    /\ input[4] = Num("tag", 0)

\* C27: State::deserialize maps "pending" and "running" to Pending and Running,
\* "finished" to Finished with the synthetic Generic error, and fails on any
\* other text; TaskControlBlock::deserialize rejects a "finished" record that
\* has neither success nor error, returns a successful result only when the
\* record carries a success, maps "pending" and "running" records to Pending
\* and Running, and rejects any other state text.
C27_FinishedWithoutResult ==
    /\ output.kind = "state" =>
          /\ input[1] = Str(<<"pending">>) => (output.ok /\ output.st = Pending)
          /\ input[1] = Str(<<"running">>) => (output.ok /\ output.st = Running)
          /\ input[1] = Str(<<"finished">>) =>
                /\ output.ok
                /\ output.st.tag = "finished"
                /\ ~output.st.ok
                /\ output.st.err = [variant |-> "Generic",
                                    msg |-> <<"deserialized finished state without result">>]
          /\ input[1] \notin {Str(<<"pending">>), Str(<<"running">>), Str(<<"finished">>)}
                => ~output.ok
    /\ output.kind = "tcb" =>
          /\ BareRecord("finished") => ~output.ok
          /\ (output.ok /\ output.st.tag = "finished" /\ output.st.ok) =>
                (Len(input) > 3 /\ input[3] = Num("tag", 1))
          /\ BareRecord("pending") => (output.ok /\ output.st = Pending)
          /\ BareRecord("running") => (output.ok /\ output.st = Running)
          /\ (Len(input) > 1
              /\ input[2] \notin {Str(<<"pending">>), Str(<<"running">>), Str(<<"finished">>)})
                => ~output.ok

\* C27 witness: a "finished" record with neither success nor error has been
\* handed to TaskControlBlock::deserialize and has been rejected.
C27_Witness ==
    /\ output.kind = "tcb"
    /\ BareRecord("finished")
    /\ ~output.ok

\* The file holds a length prefix that its batch does not follow.
Damaged(file) ==
    \E i \in 1..Len(file) :
        /\ file[i].k = "u32"
        /\ (i = Len(file) \/ file[i + 1].k # "varint")

\* C28: get_task(id) answers with the record whenever one of the three queues
\* holds the id, whatever the state of the swap file; it fails only for an id
\* that no queue holds and only on a damaged file, with a status that is not
\* the one of "not found"; for an id that is in no queue and not in the file it
\* returns None when the file ends at a batch boundary and fails when the file
\* is damaged.
C28_ReadFailureIsNotNone ==
    \A id \in JobIds :
        LET r == GetTaskResult(id)
            inMemory == id \in Range(active) \cup Range(pending) \cup Range(finished)
        IN  /\ inMemory => (r.kind = "some" /\ GetTaskStatus(r) = 200)
            /\ r.kind = "err" =>
                 /\ ~inMemory
                 /\ Damaged(swap_file)
                 /\ GetTaskStatus(r) = 500
            /\ (~inMemory /\ ~InSwapFile(swap_file, id)) =>
                 IF Damaged(swap_file)
                 THEN r.kind = "err"
                 ELSE r.kind = "none" /\ GetTaskStatus(r) = 404

\* C28 witness: the swap file is damaged after records were written to it; a
\* job in a queue is returned, and get_task for an id that was never
\* submitted fails.
C28_Witness ==
    /\ activeLock = 0
    /\ Damaged(swap_file)
    /\ \E j \in JobIds : InSwapFile(swap_file, j)
    /\ \E j \in JobIds :
          /\ j \in Range(InMemoryTiers)
          /\ GetTaskResult(j).kind = "some"
    /\ \E j \in JobIds :
          /\ state[j].tag = "none"
          /\ GetTaskResult(j).kind = "err"

\* C29 as stated: a record leaves the Finished queue only in an overflow check
\* that wrote and flushed it to the swap file, and whenever get_task can run
\* every job its handler has moved out of the Active queue is in the Finished
\* queue or in the swap file.
C29_RemovedAfterFlush ==
    /\ [][\A j \in JobIds :
            (j \in Range(finished) /\ j \notin Range(finished')) =>
                /\ InSwapFile(swap_file', j)
                /\ ~lastSwap'.err]_vars
    /\ [](\A j \in JobIds :
            (activeLock = 0 /\ jpc[j] = "done" /\ j \notin Range(active)
             /\ state[j].tag = "finished") =>
                \/ j \in Range(finished)
                \/ InSwapFile(swap_file, j))

\* The place of a lock in the order active, pending, finished, swap file.
LockOrder(l) ==
    CASE l = "active" -> 1
      [] l = "pending" -> 2
      [] l = "finished" -> 3
      [] OTHER -> 4

\* C30 as stated: an operation that acquires a lock holds no lock that comes
\* later in the order active, pending, finished, swap file.
C30_GlobalLockOrder ==
    [][\A p \in Ops : \A m \in Locks :
          (holder[m] # p /\ holder'[m] = p) =>
              \A l \in Locks : holder[l] = p => LockOrder(l) < LockOrder(m)]_vars

\* C31: the executor of a unit, from its start to the return of
\* descriptor.run and so also while it waits for a build under the
\* model_builders lock, holds no lock of the scheduler, nor does the handler
\* of the same unit before the executor has returned; and no operation holds a
\* lock of the scheduler and a lock of the model manager at the same time.
C31_ExecutorHoldsNoQueueLock ==
    /\ \A i \in 1..MaxOps :
          Unfinished(<<"executor", i>>) =>
              /\ HeldLocks(<<"executor", i>>) = {}
              /\ HeldLocks(<<"handler", i>>) = {}
    /\ \A p \in Ops \cup ExecOps : HeldLocks(p) = {} \/ HeldCacheLocks(p) = {}

\* C31 witness: an executor waits for a build under the model_builders read
\* lock while a get_task holds the three queue locks and the handler of
\* another unit holds none yet.
C31_Witness ==
    /\ HeldCacheLocks(<<"executor", 1>>) = {"model_builders"}
    /\ ppc[<<"executor", 1>>] = 8
    /\ HeldLocks(<<"get_task", 1>>) = {"active", "pending", "finished"}

\* C32: during the grace delay of a completion its job is already out of the
\* Active queue and in the Finished queue, and it is still there when the
\* overflow check of that completion runs, which, when it succeeds, moves
\* out every record above max_memory_size of a queue that includes the job.
C32_MoveBeforeOverflowCheck ==
    /\ [](\A j \in JobIds :
            jpc[j] = "grace" => (j \in Range(finished) /\ j \notin Range(active)))
    /\ [][\A j \in JobIds :
            (jpc[j] = "grace" /\ jpc'[j] = "done") =>
                /\ j \in Range(finished)
                /\ ~lastSwap'.err =>
                      /\ lastSwap'.ret =
                            (IF Len(finished) > max_memory_size
                             THEN Len(finished) - max_memory_size ELSE 0)
                      /\ Len(finished') = Len(finished) - lastSwap'.ret]_vars

\* C32 witness: with max_memory_size = 0 the overflow check of a completion
\* has moved the job of that completion itself to the swap file.
C32_Witness ==
    /\ max_memory_size = 0
    /\ lastSwap.calls = 1
    /\ lastSwap.ret = 1
    /\ \E j \in JobIds : jpc[j] = "done" /\ appended = <<j>> /\ finished = <<>>

\* The number of records in the cells of the file.
RecordsInFile(file) ==
    Cardinality({i \in 1..Len(file) : \E j \in JobIds : file[i] = Str(IdText(j))})

\* C33: wherever the file position is, a scan of the swap file yields what a
\* scan from position 0 yields; on a file without damage it ends at the end
\* of the file, having yielded every record in it; and a step that leaves the
\* bytes of the file alone, a scan that stopped anywhere included, leaves the
\* outcome of the next scan the same.
C33_ScanRestartable ==
    /\ [](/\ \A cur \in 0..Len(swap_file) :
               ScanAll(swap_file, Rewind(swap_file, cur)) = ScanAll(swap_file, 0)
          /\ ~Damaged(swap_file) =>
               /\ ScanAll(swap_file, Rewind(swap_file, cursor)).ok
               /\ Len(ScanAll(swap_file, Rewind(swap_file, cursor)).recs)
                     = RecordsInFile(swap_file))
    /\ [][swap_file' = swap_file =>
            ScanAll(swap_file', Rewind(swap_file', cursor'))
              = ScanAll(swap_file, Rewind(swap_file, cursor))]_vars

\* C33 witness: a get_task has stopped its scan inside a file of two batches
\* or more, and the next scan yields all of its records again.
C33_Witness ==
    /\ 0 < cursor
    /\ cursor < Len(swap_file)
    /\ lastSwap.calls >= 2
    /\ RecordsInFile(swap_file) >= 2
    /\ Len(ScanAll(swap_file, Rewind(swap_file, cursor)).recs) = RecordsInFile(swap_file)

\* C34 as stated: every record in the Pending queue has state Pending, every
\* record in the Active queue has state Running, and every record in the
\* Finished queue or in the swap file has a Finished state.
C34_StateAgreesWithTier ==
    /\ \A j \in Range(pending) : state[j] = Pending
    /\ \A j \in Range(active) : state[j] = Running
    /\ \A j \in Range(finished) : state[j].tag = "finished"
    /\ \A i \in 1..Len(ScanAll(swap_file, 0).recs) :
          ScanAll(swap_file, 0).recs[i].st.tag = "finished"

\* C35: a completion handler that gets the active lock finds its job in the
\* Active queue and moves it to the Finished queue, also when the executor
\* returned before try_run_topmost had pushed the job; a job whose handler has
\* acted is out of the Active queue.
C35_HandlerFindsItsJob ==
    /\ [][\A j \in JobIds :
            (jpc[j] = "returned" /\ jpc'[j] # "returned") =>
                /\ j \in Range(active)
                /\ jpc'[j] = "grace"
                /\ j \notin Range(active')
                /\ j \in Range(finished')]_vars
    /\ [](\A j \in JobIds :
            jpc[j] \in {"grace", "done"} => (j \notin Range(active) /\ spawned # j))

\* C35 witness: the executor of a job has returned while try_run_topmost has
\* spawned the job and not yet pushed it, and the handler of an earlier job has
\* found and moved its job.
C35_Witness ==
    \E j, k \in JobIds :
        /\ spawned = k
        /\ jpc[k] = "returned"
        /\ k \notin Range(active)
        /\ jpc[j] = "done"
        /\ j \in Range(finished) \cup Range(appended)

\* An overflow check runs in this step, on a Finished queue within the ceiling.
CheckWithinCeiling ==
    /\ lastSwap'.calls # lastSwap.calls
    /\ Len(finished) <= max_memory_size

\* C36 as stated: an overflow check on a Finished queue of at most
\* max_memory_size records returns 0 and leaves the queue and the bytes of the
\* swap file as they were.
C36_NoOverflowNoChange ==
    [][CheckWithinCeiling =>
          /\ ~lastSwap'.err
          /\ lastSwap'.ret = 0
          /\ finished' = finished
          /\ swap_file' = swap_file]_vars

\* C36 amended: such a check leaves the queue and the bytes of the swap file
\* as they were, and returns 0 unless its seek to the end of the file fails,
\* in which case it returns that error.
C36_NoOverflowNoChangeUnlessSeekFails ==
    [][CheckWithinCeiling =>
          /\ finished' = finished
          /\ swap_file' = swap_file
          /\ lastSwap'.ret = 0
          /\ lastSwap'.err <=> failures' = failures + 1
          /\ ~lastSwap'.err => cursor' = Len(swap_file)]_vars

\* C36 witness: with max_memory_size = 1 the one overflow check so far ran on
\* a queue of one record, returned 0 and left the record and the empty file.
C36_Witness ==
    /\ max_memory_size = 1
    /\ lastSwap = [calls |-> 1, err |-> FALSE, ret |-> 0]
    /\ Len(finished) = 1
    /\ swap_file = <<>>
    /\ failures = 0

\* A step that is neither a new record nor an overflow check: a get_task.
LookupStep == nextId' = nextId /\ lastSwap' = lastSwap

\* C37: a get_task, whatever it returns, leaves the three queues, the state
\* of every record and the bytes of the swap file as they were, and with them
\* what the next get_task returns for any id; only the file position moves.
C37_GetTaskReadOnly ==
    [][LookupStep =>
          /\ active' = active
          /\ pending' = pending
          /\ finished' = finished
          /\ state' = state
          /\ swap_file' = swap_file
          /\ \A id \in JobIds :
                LET before == GetTaskIn(InMemoryTiers, state, swap_file, cursor, id)
                    after == GetTaskIn(active' \o pending' \o finished', state',
                                       swap_file', cursor', id)
                IN  after.kind = before.kind /\ after.st = before.st]_vars

\* C37 witness: a get_task has read the swap file and stopped inside it, with
\* a record in the Finished queue and two batches in the file.
C37_Witness ==
    /\ max_memory_size = 1
    /\ Len(finished) = 1
    /\ lastSwap.ret = 1
    /\ RecordsInFile(swap_file) = 2
    /\ 0 < cursor
    /\ cursor < Len(swap_file)

\* Timer t has not been aborted and has not ended: it is going to remove the
\* entry of its id.
GoingToFire(t) == timer[t] \in {"sleeping", "awake"}

\* C38 as stated: an id has at most one timer that is going to fire, and
\* every timer that is going to fire is the one timeout_jobs records for its
\* id.
C38_OneTrackedTimer ==
    /\ \A id \in ModelIds :
          Cardinality({t \in Gets : GoingToFire(t) /\ gid[t] = id}) <= 1
    /\ \A t \in Gets : GoingToFire(t) => timeout_jobs[gid[t]] = t

\* ------------------------------------------------------------- runner.rs
\* Limit letting one more piece through.
LimitOffByOne(step, max_seq) == step > max_seq

\* next(): the check of the step count against the max_seq of the request.
Limit(step, max_seq) == step >= max_seq

\* GemmaStream::new: the context, or the error of its creation, is kept for
\* the first next(); nothing is prepared yet.
GemmaStreamNew(source, max_seq) ==
    /\ ~stream.made
    /\ stream' = [NoStream EXCEPT !.made = TRUE, !.ctx_source = source,
                                  !.max_seq = max_seq]
    /\ UNCHANGED <<max_concurrency, max_memory_size, active, pending, finished, state,
                   swap_file, cursor, activeLock, nextId, cpc, jpc, sequential, lastSwap,
                   failures, appended, lockVars, cacheVars, codecVars, jobVars,
                   categories, probe>>

\* One call of next() on stream s, where prepare, if it runs, succeeds or not
\* (prep) and sampling, if it runs, gives a piece, the end-of-generation token
\* or an error (smp): the stream afterwards and the item returned, "end" for
\* None, "err" for Some(Err(_)) and "piece" for Some(Ok(_)).
NextOf(s, prep, smp) ==
    IF s.done THEN [s |-> s, item |-> "end"]
    ELSE IF s.ctx_source = "err"
    THEN [s |-> [s EXCEPT !.ctx_source = "taken", !.done = TRUE], item |-> "err"]
    ELSE LET s1 == IF s.ctx_source = "ok"
                   THEN [s EXCEPT !.ctx_source = "taken", !.ctx = TRUE]
                   ELSE s
         IN  IF ~s1.runtime /\ ~prep
             THEN [s |-> [s1 EXCEPT !.done = TRUE], item |-> "err"]
             ELSE LET s2 == IF s1.runtime THEN s1
                            ELSE [s1 EXCEPT !.runtime = TRUE, !.step = 0]
                  IN  IF Limit(s2.step, s2.max_seq)
                      THEN [s |-> [s2 EXCEPT !.done = TRUE], item |-> "end"]
                      ELSE CASE smp = "piece" ->
                                  [s |-> [s2 EXCEPT !.step = @ + 1], item |-> "piece"]
                             [] smp = "eog" ->
                                  [s |-> [s2 EXCEPT !.done = TRUE], item |-> "end"]
                             [] OTHER ->
                                  [s |-> [s2 EXCEPT !.done = TRUE], item |-> "err"]

\* The consumer calls next(); what it has been given so far is kept with the
\* stream.
StreamNext(prep, smp) ==
    /\ stream.made
    /\ stream.calls < MaxCalls
    /\ LET r == NextOf(stream, prep, smp)
       IN  stream' = [r.s EXCEPT !.calls = @ + 1,
                                 !.pieces = IF r.item = "piece" THEN @ + 1 ELSE @,
                                 !.last = r.item,
                                 !.ended = @ \/ r.item \in {"end", "err"}]
    /\ UNCHANGED <<max_concurrency, max_memory_size, active, pending, finished, state,
                   swap_file, cursor, activeLock, nextId, cpc, jpc, sequential, lastSwap,
                   failures, appended, lockVars, cacheVars, codecVars, jobVars,
                   categories, probe>>

NextStream ==
    \/ \E source \in {"ok", "err"} : \E max_seq \in 0..MaxSeq :
          GemmaStreamNew(source, max_seq)
    \/ \E prep \in BOOLEAN : \E smp \in {"piece", "eog", "err"} : StreamNext(prep, smp)

SpecStream == InitOne /\ [][NextStream]_vars

\* C39: a stream has yielded at most max_seq pieces, and once a next() has
\* returned None or an error every later next() returns None and yields
\* nothing.
C39_StreamBoundedAndFused ==
    /\ [](stream.pieces <= stream.max_seq)
    /\ [][(stream.ended /\ stream'.calls = stream.calls + 1) =>
            /\ stream'.last = "end"
            /\ stream'.pieces = stream.pieces]_vars

\* C39 witness: a stream has yielded max_seq pieces, as many as the bound
\* allows, then None, and None again at a later call.
C39_Witness ==
    /\ stream.max_seq = MaxSeq
    /\ stream.pieces = MaxSeq
    /\ stream.calls = MaxSeq + 2
    /\ stream.ended
    /\ stream.last = "end"

\* --------------------------------------------------------------- bill.rs
\* The names lists are made of, the default list aside.
NameAlphabet == {"Drink", "Food", "Rent"}

\* The lists given to load_from_names: the default list of the command line
\* and every list of one to MaxNames names.
NameLists ==
    {CATEGORIES} \cup UNION {[1..n -> NameAlphabet] : n \in 1..MaxNames}

\* Category::name with the registry names: the name at the index.
NameIn(names, c) == names[c]

\* Category::all_cases with the registry names: one category for each index.
AllCases(names) == 1..Len(names)

\* Category::from_name with the registry names: the first index holding the
\* name, 0 for None.
FromNameIn(names, name) ==
    IF \E i \in 1..Len(names) : names[i] = name
    THEN CHOOSE i \in 1..Len(names) :
           /\ names[i] = name
           /\ \A k \in 1..(i - 1) : names[k] # name
    ELSE 0

\* Category::load_from_names: the registry is replaced by the list.
LoadFromNames(names) ==
    /\ categories' = names
    /\ probe' = NoProbe
    /\ UNCHANGED <<max_concurrency, max_memory_size, active, pending, finished, state,
                   swap_file, cursor, activeLock, nextId, cpc, jpc, sequential, lastSwap,
                   failures, appended, lockVars, cacheVars, codecVars, jobVars, stream>>

\* A category is serialized, which writes its name, and the text is
\* deserialized, which looks the name up.
RoundTrip(c) ==
    /\ c \in AllCases(categories)
    /\ LET name == NameIn(categories, c)
       IN  probe' = [c |-> c, name |-> name, back |-> FromNameIn(categories, name)]
    /\ UNCHANGED <<max_concurrency, max_memory_size, active, pending, finished, state,
                   swap_file, cursor, activeLock, nextId, cpc, jpc, sequential, lastSwap,
                   failures, appended, lockVars, cacheVars, codecVars, jobVars, stream,
                   categories>>

NextCategory ==
    \/ \E names \in NameLists : LoadFromNames(names)
    \/ \E c \in 1..Len(CATEGORIES) : RoundTrip(c)

SpecCategory == InitOne /\ [][NextCategory]_vars

\* C40: a category of all_cases() that is written by name and read back is
\* the same category, whatever list of names is registered.
C40_NamesRoundTrip == probe.c # 0 => probe.back = probe.c

=============================================================================
